---- MODULE Spec2Model ----
(***************************************************************************)
(* Drift Radar: the scoring engine (analyze.ts), the baseline aggregator   *)
(* (baseline.ts), the orchestrator (main.ts) and the comment publisher     *)
(* (comment.ts).                                                           *)
(*                                                                         *)
(* Numbers.  The source computes in IEEE doubles.  The model computes in   *)
(* fixed point: sub-scores in units of 10^-5 (E5), base and driver         *)
(* contributions in units of 10^-7 (E7), amp in twentieths, square roots   *)
(* in units of 10^-4 (E4).  log10 and sqrt are computed digit by digit on  *)
(* integers that stay below 2^31.  testCoverage, a quotient, is kept as    *)
(* the pair <<T, max(1,C)>>.  Paths are sequences of one-character         *)
(* strings, so that the prefix, suffix and substring tests are computed.   *)
(***************************************************************************)
EXTENDS Integers, Sequences, FiniteSets, TLC

VARIABLES
    \* analyze(files, hotspotSet), src/unnamed/part_000
    files, hotspotSet, pc, counts, scores, driversTop3, suggested,
    \* computeBaseline(octokit, owner, repo, historyN), src/src/baseline.ts
    repoClosed, historyN, bpc, merged, cursor, freq, histScores, computed,
    \* run(), src/src/main.ts, and what it leaves behind
    rpc, runs, now, mode, pullNumber, cacheStore, localFile, loaded, baseline,
    fresh, lastSaved, saveFailure, fetchFailed, outcome, trendText, comment,
    \* upsertSingleComment(params), src/unnamed/part_001, and the comments of
    \* the change
    issueComments, nextId, tagInput, upc, params, page, existingId, calls,
    published, posted, lastWrite

avars == <<files, hotspotSet, pc, counts, scores, driversTop3, suggested>>

bvars == <<repoClosed, historyN, bpc, merged, cursor, freq, histScores, computed>>

rvars == <<rpc, runs, now, mode, pullNumber, cacheStore, localFile, loaded, baseline,
           fresh, lastSaved, saveFailure, fetchFailed, outcome, trendText, comment>>

cvars == <<issueComments, nextId, tagInput, upc, params, page, existingId, calls,
           published, posted, lastWrite>>

vars == <<avars, bvars, rvars, cvars>>

(***************************************************************************)
(* Bounds of the model.                                                    *)
(***************************************************************************)
MaxFiles == 4
MaxHistory == 3
MaxRuns == 3

E4 == 10^4
E5 == 10^5
E7 == 10^7

Min(a, b) == IF a <= b THEN a ELSE b
Max(a, b) == IF a >= b THEN a ELSE b
Range(seq) == {seq[i] : i \in 1..Len(seq)}

(***************************************************************************)
(* utils.ts                                                                *)
(***************************************************************************)
clamp(min, max, v) == Max(min, Min(max, v))

\* floor(m * m / 10^5) for 0 <= m < 10^6, without leaving 32 bits
SquareE5(m) ==
    LET h == m \div 1000
        l == m % 1000
    IN  10 * h * h + (2000 * h * l + l * l) \div E5

RECURSIVE Digits(_)
Digits(x) == IF x < 10 THEN 0 ELSE 1 + Digits(x \div 10)

\* the fractional bits of log10(m / 10^5), 1 <= m / 10^5 < 10, by repeated
\* squaring; the result is in units of 2^-17
RECURSIVE LogBits(_, _)
LogBits(m, i) ==
    IF i > 17 THEN 0
    ELSE LET s == SquareE5(m)
         IN  IF s >= 10 * E5
             THEN 2^(17 - i) + LogBits(s \div 10, i + 1)
             ELSE LogBits(s, i + 1)

\* log10(x) = Math.log(x) / Math.log(10), x >= 1 an integer, in units of 10^-5
log10(x) ==
    LET n == Digits(x)
        m == IF n <= 5 THEN x * 10^(5 - n) ELSE x \div 10^(n - 5)
    IN  n * E5 + (LogBits(m, 1) * 3125 + 2048) \div 4096

\* Math.round of a non-negative value v / unit
round(v, unit) == (v + unit \div 2) \div unit

\* the largest r in lo..hi with r * r <= n
RECURSIVE IntSqrt(_, _, _)
IntSqrt(n, lo, hi) ==
    IF lo >= hi THEN lo
    ELSE LET mid == (lo + hi + 1) \div 2
         IN  IF mid * mid <= n THEN IntSqrt(n, mid, hi) ELSE IntSqrt(n, lo, mid - 1)

\* the largest d in lo..hi with (r0 + d / 10^4)^2 <= r0^2 + rem
RECURSIVE SqrtFrac(_, _, _, _)
SqrtFrac(r0, rem, lo, hi) ==
    IF lo >= hi THEN lo
    ELSE LET mid == (lo + hi + 1) \div 2
         IN  IF 2 * r0 * mid + (mid * mid + E4 - 1) \div E4 <= rem * E4
             THEN SqrtFrac(r0, rem, mid, hi)
             ELSE SqrtFrac(r0, rem, lo, mid - 1)

\* Math.sqrt(n), n >= 0 an integer, in units of 10^-4
sqrt(n) ==
    LET r0 == IntSqrt(n, 0, 46340)
    IN  r0 * E4 + SqrtFrac(r0, n - r0 * r0, 0, E4 - 1)

UpperCase == <<"A","B","C","D","E","F","G","H","I","J","K","L","M",
               "N","O","P","Q","R","S","T","U","V","W","X","Y","Z">>
LowerCase == <<"a","b","c","d","e","f","g","h","i","j","k","l","m",
               "n","o","p","q","r","s","t","u","v","w","x","y","z">>

toLowerCase(p) ==
    [i \in 1..Len(p) |->
        IF \E k \in 1..26 : UpperCase[k] = p[i]
        THEN LowerCase[CHOOSE k \in 1..26 : UpperCase[k] = p[i]]
        ELSE p[i]]

startsWith(s, pre) == Len(pre) <= Len(s) /\ SubSeq(s, 1, Len(pre)) = pre
endsWith(s, suf) == Len(suf) <= Len(s) /\ SubSeq(s, Len(s) - Len(suf) + 1, Len(s)) = suf
includes(s, sub) == \E i \in 1..(Len(s) - Len(sub) + 1) : SubSeq(s, i, i + Len(sub) - 1) = sub

isDocsPath(p) ==
    LET lower == toLowerCase(p)
    IN  \/ startsWith(lower, <<"d","o","c","s","/">>)
        \/ endsWith(lower, <<".","m","d">>)
        \/ startsWith(lower, <<"r","e","a","d","m","e">>)

isInfraPath(p) ==
    LET lower == toLowerCase(p)
    IN  \/ startsWith(lower, <<".","g","i","t","h","u","b","/">>)
        \/ lower = <<"d","o","c","k","e","r","f","i","l","e">>
        \/ startsWith(lower, <<"t","e","r","r","a","f","o","r","m","/">>)
        \/ endsWith(lower, <<".","y","m","l">>)
        \/ endsWith(lower, <<".","y","a","m","l">>)
        \/ endsWith(lower, <<".","t","f">>)

isCorePath(p) ==
    LET lower == toLowerCase(p)
    IN  \/ startsWith(lower, <<"s","r","c","/">>)
        \/ startsWith(lower, <<"l","i","b","/">>)
        \/ startsWith(lower, <<"a","p","p","/">>)

isTestsPath(p) ==
    LET lower == toLowerCase(p)
    IN  \/ startsWith(lower, <<"t","e","s","t","s","/">>)
        \/ includes(lower, <<"/","_","_","t","e","s","t","s","_","_","/">>)
        \/ startsWith(lower, <<"_","_","t","e","s","t","s","_","_","/">>)

depsFiles ==
    { <<"p","a","c","k","a","g","e",".","j","s","o","n">>,
      <<"p","a","c","k","a","g","e","-","l","o","c","k",".","j","s","o","n">>,
      <<"p","n","p","m","-","l","o","c","k",".","y","a","m","l">>,
      <<"y","a","r","n",".","l","o","c","k">>,
      <<"p","o","e","t","r","y",".","l","o","c","k">>,
      <<"r","e","q","u","i","r","e","m","e","n","t","s",".","t","x","t">>,
      <<"p","i","p","f","i","l","e",".","l","o","c","k">> }

isDepsPath(p) == toLowerCase(p) \in depsFiles

(***************************************************************************)
(* analyze.ts (src/unnamed/part_000)                                       *)
(***************************************************************************)
\* a numeric field that is missing or not a number: (x || 0) reads it as 0
Absent == -1

OrZero(x) == IF x = Absent THEN 0 ELSE x

RECURSIVE ClassifyLoop(_, _, _, _)
ClassifyLoop(fs, hs, i, acc) ==
    IF i > Len(fs) THEN acc
    ELSE LET f == fs[i]
             lines == OrZero(f.additions) + OrZero(f.deletions)
             path == f.filename
         IN  ClassifyLoop(fs, hs, i + 1,
                [F |-> acc.F + 1,
                 L |-> acc.L + lines,
                 C |-> acc.C + (IF isCorePath(path) THEN 1 ELSE 0),
                 T |-> acc.T + (IF isTestsPath(path) THEN 1 ELSE 0),
                 D |-> acc.D + (IF isDepsPath(path) THEN 1 ELSE 0),
                 I |-> acc.I + (IF isInfraPath(path) THEN 1 ELSE 0),
                 H |-> acc.H + (IF path \in hs THEN 1 ELSE 0),
                 docsCount |-> acc.docsCount + (IF isDocsPath(path) THEN 1 ELSE 0)])

TestCoverageWrongDenominator(T, C) == [num |-> T, den |-> C + 1]

\* testCoverage = T / Math.max(1, C), kept as numerator and denominator
TestCoverage(T, C) == [num |-> T, den |-> Max(1, C)]

DocsOnly(fs, docsCount) == Len(fs) > 0 /\ docsCount = Len(fs)

classifyFiles(fs, hs) ==
    LET a == ClassifyLoop(fs, hs, 1,
                 [F |-> 0, L |-> 0, C |-> 0, T |-> 0, D |-> 0, I |-> 0, H |-> 0,
                  docsCount |-> 0])
    IN  [F |-> a.F, L |-> a.L, C |-> a.C, T |-> a.T, D |-> a.D, I |-> a.I, H |-> a.H,
         docsOnly |-> DocsOnly(fs, a.docsCount),
         testCoverage |-> TestCoverage(a.T, a.C)]

\* raw = (sizeUnits / 12) * m_core * m_infra * m_deps * m_hot * m_tests, as
\* sizeUnits (E4) times the product of the five multipliers' numerators
\* (over 20, 5, 4, 10, 10), divided by 1000: raw in units of 1 / 4800000
ReviewRaw(F, L, C, T, D, I, H) ==
    LET sizeUnits == sqrt(Max(0, L)) + 2 * F * E4
        m == (20 + 3 * Min(5, C)) * (5 + Min(3, I)) * (4 + Min(2, D))
                 * (10 + Min(5, H)) * (10 - Min(3, T))
    IN  (sizeUnits \div 1000) * m + ((sizeUnits % 1000) * m) \div 1000

computeReviewMinutesUnclamped(F, L, C, T, D, I, H) ==
    round(ReviewRaw(F, L, C, T, D, I, H), 4800000)

computeReviewMinutes(F, L, C, T, D, I, H) ==
    clamp(5, 90, round(ReviewRaw(F, L, C, T, D, I, H), 4800000))

\* 60 * (1 - Math.min(1, testCoverage)), in E5
QualityTerm(tc) ==
    IF tc.num >= tc.den THEN 0 ELSE (60 * E5 * (tc.den - tc.num)) \div tc.den

DocsCapMissing(score, docsOnly) == score

DocsCap(score, docsOnly) == IF docsOnly THEN Min(score, 25) ELSE score

computeScores(c) ==
    LET S_size == clamp(0, 100 * E5, 8 * c.F * E5 + 12 * log10(1 + Max(0, c.L)))
        S_deps == clamp(0, 100 * E5, 35 * c.D * E5)
        S_infra == clamp(0, 100 * E5, 25 * c.I * E5)
        S_hot == clamp(0, 100 * E5, 20 * c.H * E5)
        S_quality == clamp(0, 100 * E5, QualityTerm(c.testCoverage))
        \* the weights 0.35, 0.2, 0.2, 0.15, 0.1 in hundredths: base in E7
        base == 35 * S_size + 20 * S_quality + 20 * S_deps + 15 * S_infra + 10 * S_hot
        \* amp in twentieths: 1.0 = 20, 0.15 = 3, 0.1 = 2, 0.05 = 1, 1.4 = 28
        amp == Min(28, 20 + (IF c.C > 0 /\ c.T = 0 THEN 3 ELSE 0)
                          + (IF c.D > 0 /\ c.I > 0 THEN 2 ELSE 0)
                          + (IF c.C > 0 /\ c.D > 0 THEN 2 ELSE 0)
                          + (IF c.H >= 2 THEN 1 ELSE 0))
        uncapped == clamp(0, 100, round((base \div 20) * amp, E7))
        score == DocsCap(uncapped, c.docsOnly)
    IN  [S_size |-> S_size, S_deps |-> S_deps, S_infra |-> S_infra, S_hot |-> S_hot,
         S_quality |-> S_quality, base |-> base, amp |-> amp,
         uncapped |-> uncapped, score |-> score,
         reviewMinutes |-> computeReviewMinutes(c.F, c.L, c.C, c.T, c.D, c.I, c.H),
         verdictEmoji |-> IF score <= 39 THEN "green"
                          ELSE IF score <= 69 THEN "yellow" ELSE "red"]

\* bestByKey.set(d.key, d) on a Map kept as the sequence of its values in
\* insertion order: a key already present keeps its place
MapSet(m, d) ==
    IF \E i \in 1..Len(m) : m[i].key = d.key
    THEN [i \in 1..Len(m) |-> IF m[i].key = d.key THEN d ELSE m[i]]
    ELSE Append(m, d)

RECURSIVE BestByKey(_, _, _)
BestByKey(ds, i, m) ==
    IF i > Len(ds) THEN m
    ELSE LET d == ds[i]
             existing == {k \in 1..Len(m) : m[k].key = d.key}
         IN  BestByKey(ds, i + 1,
                 IF existing = {} \/ \E k \in existing : d.contribution > m[k].contribution
                 THEN MapSet(m, d) ELSE m)

\* Array.prototype.sort((a, b) => b.contribution - a.contribution): stable,
\* so d goes behind every element that does not compare after it
InsertByContribution(sorted, d) ==
    LET k == Cardinality({i \in 1..Len(sorted) : sorted[i].contribution >= d.contribution})
    IN  SubSeq(sorted, 1, k) \o <<d>> \o SubSeq(sorted, k + 1, Len(sorted))

RECURSIVE SortLoop(_, _, _)
SortLoop(ds, i, sorted) ==
    IF i > Len(ds) THEN sorted
    ELSE SortLoop(ds, i + 1, InsertByContribution(sorted, ds[i]))

SortUnsorted(ds) == ds

SortByContribution(ds) == SortLoop(ds, 1, <<>>)

\* the candidate list of pickDrivers, in the order the causes are pushed;
\* contributions in E7
DriverCandidates(c, sc) ==
    LET contribLarge == 35 * sc.S_size
        qualityBase == 20 * sc.S_quality
        bonusCoreNoTests == IF c.C > 0 /\ c.T = 0 THEN 12 * E7 ELSE 0
        contribLowTests == qualityBase + 0 + bonusCoreNoTests
        depsBase == 20 * sc.S_deps
        bonusDepsInfra == IF c.D > 0 /\ c.I > 0 THEN 6 * E7 ELSE 0
        bonusDepsCore == IF c.C > 0 /\ c.D > 0 THEN 6 * E7 ELSE 0
        contribDeps == depsBase + bonusDepsInfra + bonusDepsCore
        contribInfra == 15 * sc.S_infra
        hotBase == 10 * sc.S_hot
        bonusHot == IF c.H >= 2 THEN 3 * E7 ELSE 0
        contribHot == hotBase + bonusHot
    IN  (IF c.C > 0 /\ c.T = 0
         THEN << [key |-> "Core changed without tests",
                  label |-> "Core code modified without tests",
                  contribution |-> bonusCoreNoTests + 15 * E7] >>
         ELSE <<>>)
        \o << [key |-> "Large change size", label |-> "Large change size",
               contribution |-> contribLarge] >>
        \o (IF c.testCoverage.num < c.testCoverage.den
            THEN << [key |-> "Low test coverage", label |-> "Low test coverage",
                     contribution |-> contribLowTests] >>
            ELSE <<>>)
        \o (IF c.D > 0
            THEN << [key |-> "Dependency churn", label |-> "Dependency churn above baseline",
                     contribution |-> contribDeps] >>
            ELSE <<>>)
        \o (IF c.I > 0
            THEN << [key |-> "Infra/config touched", label |-> "Infra/config touched",
                     contribution |-> contribInfra] >>
            ELSE <<>>)
        \o (IF c.H > 0
            THEN << [key |-> "Hotspot repeatedly modified",
                     label |-> "Repeated changes in hotspot folders",
                     contribution |-> contribHot] >>
            ELSE <<>>)

\* pickDrivers keeping two drivers instead of three
pickDriversTopTwo(c, sc) ==
    LET bestByKey == BestByKey(DriverCandidates(c, sc), 1, <<>>)
        sorted == SortByContribution(bestByKey)
    IN  SubSeq(sorted, 1, Min(2, Len(sorted)))

pickDrivers(c, sc) ==
    LET bestByKey == BestByKey(DriverCandidates(c, sc), 1, <<>>)
        sorted == SortByContribution(bestByKey)
    IN  SubSeq(sorted, 1, Min(3, Len(sorted)))

suggestedActionsIgnoringDocsOnly(c, score) ==
    LET actions ==
            (IF c.C > 0 /\ c.T = 0 THEN <<"Add targeted tests">> ELSE <<>>)
            \o (IF score >= 70 THEN <<"Split this PR">>
                ELSE IF score >= 40 /\ (c.D > 0 \/ c.I > 0)
                     THEN <<"Add a focused review checklist">> ELSE <<>>)
        final == IF Len(actions) = 0 THEN <<"Proceed with normal review">> ELSE actions
    IN  SubSeq(final, 1, Min(2, Len(final)))

suggestedActions(c, score) ==
    IF c.docsOnly THEN <<"No action needed (docs-only change)">>
    ELSE LET actions ==
                 (IF c.C > 0 /\ c.T = 0 THEN <<"Add targeted tests">> ELSE <<>>)
                 \o (IF score >= 70 THEN <<"Split this PR">>
                     ELSE IF score >= 40 /\ (c.D > 0 \/ c.I > 0)
                          THEN <<"Add a focused review checklist">> ELSE <<>>)
             final == IF Len(actions) = 0 THEN <<"Proceed with normal review">> ELSE actions
         IN  SubSeq(final, 1, Min(2, Len(final)))

analyze(fs, hs) ==
    LET c == classifyFiles(fs, hs)
        sc == computeScores(c)
    IN  [counts |-> c, scores |-> sc, driversTop3 |-> pickDrivers(c, sc),
         suggestedActions |-> suggestedActions(c, sc.score)]

(***************************************************************************)
(* utils.ts: median; baseline.ts: computeBaseline                          *)
(***************************************************************************)
\* null, for a baselineMedianScore that is absent
Null == -1

InsertAscending(sorted, x) ==
    LET n == Cardinality({i \in 1..Len(sorted) : sorted[i] <= x})
    IN  SubSeq(sorted, 1, n) \o <<x>> \o SubSeq(sorted, n + 1, Len(sorted))

RECURSIVE SortAscendingLoop(_, _, _)
SortAscendingLoop(nums, i, sorted) ==
    IF i > Len(nums) THEN sorted
    ELSE SortAscendingLoop(nums, i + 1, InsertAscending(sorted, nums[i]))

SortSkipped(nums) == nums

\* [...nums].sort((x, y) => x - y)
SortAscending(nums) == SortAscendingLoop(nums, 1, <<>>)

\* median(nums), in halves: an even length averages the two middle values
median(nums) ==
    IF Len(nums) = 0 THEN Null
    ELSE LET a == SortAscending(nums)
             mid == Len(a) \div 2
         IN  IF Len(a) % 2 = 0 THEN a[mid] + a[mid + 1] ELSE 2 * a[mid + 1]

\* freq.set(path, (freq.get(path) ?? 0) + 1) on a Map kept as the sequence
\* of its entries in insertion order
FreqIncrement(fq, path) ==
    IF \E i \in 1..Len(fq) : fq[i].path = path
    THEN [i \in 1..Len(fq) |->
             IF fq[i].path = path THEN [path |-> path, count |-> fq[i].count + 1] ELSE fq[i]]
    ELSE Append(fq, [path |-> path, count |-> 1])

RECURSIVE FreqAddFiles(_, _, _)
FreqAddFiles(fq, fs, i) ==
    IF i > Len(fs) THEN fq
    ELSE FreqAddFiles(FreqIncrement(fq, fs[i].filename), fs, i + 1)

\* [...freq.entries()].sort((a, b) => b[1] - a[1]): stable
InsertByCount(sorted, e) ==
    LET n == Cardinality({i \in 1..Len(sorted) : sorted[i].count >= e.count})
    IN  SubSeq(sorted, 1, n) \o <<e>> \o SubSeq(sorted, n + 1, Len(sorted))

RECURSIVE SortByCountLoop(_, _, _)
SortByCountLoop(es, i, sorted) ==
    IF i > Len(es) THEN sorted
    ELSE SortByCountLoop(es, i + 1, InsertByCount(sorted, es[i]))

SortedEntries(fq) == SortByCountLoop(fq, 1, <<>>)

Paths(es) == [i \in 1..Len(es) |-> es[i].path]

Top10(entries) == Paths(SubSeq(entries, 1, Min(10, Len(entries))))

ThresholdAtFour(entries) == Paths(SelectSeq(entries, LAMBDA e : e.count >= 4))

Threshold(entries) == Paths(SelectSeq(entries, LAMBDA e : e.count >= 3))

\* [...new Set(xs)]: the first occurrence of each element, in order
RECURSIVE SetOrder(_, _, _)
SetOrder(xs, i, out) ==
    IF i > Len(xs) THEN out
    ELSE SetOrder(xs, i + 1,
             IF \E j \in 1..Len(out) : out[j] = xs[i] THEN out ELSE Append(out, xs[i]))

HotspotFiles(fq) ==
    LET entries == SortedEntries(fq)
    IN  SetOrder(Top10(entries) \o Threshold(entries), 1, <<>>)

\* the record computeBaseline returns for an empty list of merged changes,
\* and the one run() falls back to
EmptyBaseline(at, n) ==
    [computedAt |-> at, historyN |-> n, baselineMedianScore |-> Null, hotspotFiles |-> <<>>]

BaselineRecord(at, n, fq, ss) ==
    [computedAt |-> at, historyN |-> n, baselineMedianScore |-> median(ss),
     hotspotFiles |-> HotspotFiles(fq)]

(***************************************************************************)
(* The inputs of the model: changed files as the hosting platform lists    *)
(* them, each path once per change.                                        *)
(***************************************************************************)
File(name, a, d) == [filename |-> name, additions |-> a, deletions |-> d]

FilePool ==
    << File(<<"s","r","c","/","a",".","t","s">>, 50, 10),
       File(<<"s","r","c","/","b",".","y","m","l">>, 50000, 50000),
       File(<<"S","R","C","/","G","u","i","d","e",".","M","D">>, 30000, 10000),
       File(<<"d","o","c","s","/","r","e","a","d","m","e",".","t","x","t">>, 5, 2),
       File(<<"R","E","A","D","M","E">>, Absent, Absent),
       File(<<"t","e","s","t","s","/","a",".","t","s">>, 120, 0),
       File(<<"d","o","c","s","/","_","_","t","e","s","t","s","_","_","/","t",".","m","d">>, 40, 8),
       File(<<"p","a","c","k","a","g","e",".","j","s","o","n">>, 40000, 40000),
       File(<<"y","a","r","n",".","l","o","c","k">>, 3000, 2000),
       File(<<"D","o","c","k","e","r","f","i","l","e">>, 12, 3),
       File(<<".","g","i","t","h","u","b","/","c","i",".","y","m","l">>, 30, 5),
       File(<<"l","i","b","/","_","_","t","e","s","t","s","_","_","/","x",".","t","s">>, 200, 40),
       File(<<"d","o","c","s","/","c","i",".","y","a","m","l">>, 6, 1),
       File(<<"m","a","i","n",".","g","o">>, 900, 99),
       File(<<"p","n","p","m","-","l","o","c","k",".","y","a","m","l">>, 700, 300) >>

\* the file lists of at most MaxFiles files, in the pool's order
FileLists ==
    { SelectSeq(FilePool, LAMBDA f : f \in S) :
        S \in {X \in SUBSET {FilePool[i] : i \in 1..Len(FilePool)} : Cardinality(X) <= MaxFiles} }

HotspotCandidates ==
    { <<"p","a","c","k","a","g","e",".","j","s","o","n">>,
      <<"t","e","s","t","s","/","a",".","t","s">> }

NoCounts == classifyFiles(<<>>, {})
NoScores == computeScores(NoCounts)

\* the closed changes of the repository by number: their files, and whether
\* they were merged.  Changes 1 and 2 touch the same eleven paths, change 3
\* those and a twelfth, change 4 two of them; change 5 was closed unmerged.
Reverse(seq) == [i \in 1..Len(seq) |-> seq[Len(seq) + 1 - i]]

PullPool ==
    << [files |-> SubSeq(FilePool, 1, 11), merged_at |-> TRUE],
       [files |-> Reverse(SubSeq(FilePool, 1, 11)), merged_at |-> TRUE],
       [files |-> SubSeq(FilePool, 7, 12) \o SubSeq(FilePool, 1, 6), merged_at |-> TRUE],
       [files |-> <<FilePool[12], FilePool[1]>>, merged_at |-> TRUE],
       [files |-> <<FilePool[13]>>, merged_at |-> FALSE] >>

RECURSIVE SeqsOver(_, _)
SeqsOver(S, n) ==
    IF n = 0 THEN {<<>>}
    ELSE LET shorter == SeqsOver(S, n - 1)
         IN  shorter \cup {Append(q, x) : q \in {r \in shorter : Len(r) = n - 1}, x \in S}

\* the closed changes as the platform lists them, most recently updated
\* first: no number twice
ClosedLists ==
    {q \in SeqsOver(1..Len(PullPool), MaxHistory) :
        \A i, j \in 1..Len(q) : i # j => q[i] # q[j]}

(***************************************************************************)
(* What each specification leaves idle.                                    *)
(***************************************************************************)
AnalyzeIdle ==
    /\ files = <<>>
    /\ hotspotSet = {}
    /\ pc = "idle"
    /\ counts = NoCounts
    /\ scores = NoScores
    /\ driversTop3 = <<>>
    /\ suggested = <<>>

BaselineIdle ==
    /\ repoClosed = <<>>
    /\ historyN = 0
    /\ bpc = "idle"
    /\ merged = <<>>
    /\ cursor = 0
    /\ freq = <<>>
    /\ histScores = <<>>
    /\ computed = <<>>

RunIdle ==
    /\ rpc = "idle"
    /\ runs = 0
    /\ now = 0
    /\ mode = "analyze"
    /\ pullNumber = 0
    /\ cacheStore = <<>>
    /\ localFile = <<>>
    /\ loaded = <<>>
    /\ baseline = <<>>
    /\ fresh = <<>>
    /\ lastSaved = <<>>
    /\ saveFailure = "none"
    /\ fetchFailed = FALSE
    /\ outcome = "none"
    /\ trendText = <<>>
    /\ comment = <<>>

\* no call of upsertSingleComment was made and the change has no comment
CommentIdle ==
    /\ issueComments = <<>>
    /\ nextId = 1
    /\ tagInput = <<>>
    /\ upc = "idle"
    /\ params = [body |-> <<>>, tag |-> <<>>]
    /\ page = 1
    /\ existingId = Null
    /\ calls = 0
    /\ published = <<>>
    /\ posted = <<>>
    /\ lastWrite = "none"

(***************************************************************************)
(* Spec: one call of analyze(files, hotspotSet), its four calls in order.  *)
(***************************************************************************)
Init ==
    /\ files \in FileLists
    /\ hotspotSet \in SUBSET HotspotCandidates
    /\ pc = "classify"
    /\ counts = NoCounts
    /\ scores = NoScores
    /\ driversTop3 = <<>>
    /\ suggested = <<>>
    /\ BaselineIdle
    /\ RunIdle
    /\ CommentIdle

Classify ==
    /\ pc = "classify"
    /\ counts' = classifyFiles(files, hotspotSet)
    /\ pc' = "score"
    /\ UNCHANGED <<cvars, files, hotspotSet, scores, driversTop3, suggested, bvars, rvars>>

Score ==
    /\ pc = "score"
    /\ scores' = computeScores(counts)
    /\ pc' = "drivers"
    /\ UNCHANGED <<cvars, files, hotspotSet, counts, driversTop3, suggested, bvars, rvars>>

Drivers ==
    /\ pc = "drivers"
    /\ driversTop3' = pickDrivers(counts, scores)
    /\ pc' = "actions"
    /\ UNCHANGED <<cvars, files, hotspotSet, counts, scores, suggested, bvars, rvars>>

Actions ==
    /\ pc = "actions"
    /\ suggested' = suggestedActions(counts, scores.score)
    /\ pc' = "done"
    /\ UNCHANGED <<cvars, files, hotspotSet, counts, scores, driversTop3, bvars, rvars>>

Next == Classify \/ Score \/ Drivers \/ Actions

Spec == Init /\ [][Next]_vars

(***************************************************************************)
(* computeBaseline: one action per await.                                  *)
(***************************************************************************)
\* listMergedPulls: the first n merged changes of the closed list
RECURSIVE MergedNumbers(_, _, _, _)
MergedNumbers(closed, n, i, out) ==
    IF i > Len(closed) \/ Len(out) >= n THEN SubSeq(out, 1, Min(n, Len(out)))
    ELSE MergedNumbers(closed, n, i + 1,
             IF PullPool[closed[i]].merged_at THEN Append(out, closed[i]) ELSE out)

listMergedPulls(closed, n) == MergedNumbers(closed, n, 1, <<>>)

\* the score of a historical change: analyze(files, new Set())
HistoricalScore(fs) == analyze(fs, {}).scores.score

\* await listMergedPulls resolves; an empty list returns at once
ListMergedPulls ==
    /\ bpc = "list"
    /\ LET m == listMergedPulls(repoClosed, historyN)
       IN  /\ merged' = m
           /\ IF Len(m) = 0
              THEN /\ computed' = <<EmptyBaseline(now, historyN)>>
                   /\ bpc' = "returned"
              ELSE /\ computed' = <<>>
                   /\ bpc' = "loop"
    /\ cursor' = 1
    /\ freq' = <<>>
    /\ histScores' = <<>>
    /\ UNCHANGED <<cvars, repoClosed, historyN, avars, rvars>>

\* await listMergedPulls rejects
ListMergedPullsFails ==
    /\ bpc = "list"
    /\ bpc' = "threw"
    /\ UNCHANGED <<cvars, repoClosed, historyN, merged, cursor, freq, histScores, computed, avars, rvars>>

\* await listPullFiles resolves for toProcess[cursor]: one pass of the loop, and
\* after the last one the rest of the function
ProcessPull ==
    /\ bpc = "loop"
    /\ LET toProcess == SubSeq(merged, 1, Min(historyN, Len(merged)))
           fs == PullPool[toProcess[cursor]].files
           fq == FreqAddFiles(freq, fs, 1)
           ss == Append(histScores, HistoricalScore(fs))
       IN  /\ freq' = fq
           /\ histScores' = ss
           /\ cursor' = cursor + 1
           /\ IF cursor = Len(toProcess)
              THEN /\ computed' = <<BaselineRecord(now, historyN, fq, ss)>>
                   /\ bpc' = "returned"
              ELSE UNCHANGED <<computed, bpc>>
    /\ UNCHANGED <<cvars, repoClosed, historyN, merged, avars, rvars>>

\* await listPullFiles rejects
ListPullFilesFails ==
    /\ bpc = "loop"
    /\ bpc' = "threw"
    /\ UNCHANGED <<cvars, repoClosed, historyN, merged, cursor, freq, histScores, computed, avars, rvars>>

ComputeBaselineStep ==
    ListMergedPulls \/ ListMergedPullsFails \/ ProcessPull \/ ListPullFilesFails

(***************************************************************************)
(* SpecBaseline: one call of computeBaseline on a repository's history.    *)
(***************************************************************************)
InitBaseline ==
    /\ repoClosed \in ClosedLists
    /\ historyN \in 1..MaxHistory
    /\ bpc = "list"
    /\ merged = <<>>
    /\ cursor = 0
    /\ freq = <<>>
    /\ histScores = <<>>
    /\ computed = <<>>
    /\ AnalyzeIdle
    /\ RunIdle
    /\ CommentIdle

NextBaseline == ComputeBaselineStep

SpecBaseline == InitBaseline /\ [][NextBaseline]_vars

(***************************************************************************)
(* main.ts: run(), one action per await.  One branch, one cache key.       *)
(***************************************************************************)
\* JSON.stringify(data) and JSON.parse(raw) of a BaselineData record: the
\* text as its members in the order they are written
JSONstringify(d) ==
    << <<"computedAt", d.computedAt>>, <<"historyN", d.historyN>>,
       <<"baselineMedianScore", d.baselineMedianScore>>,
       <<"hotspotFiles", d.hotspotFiles>> >>

Member(text, name) == text[CHOOSE i \in 1..Len(text) : text[i][1] = name][2]

JSONparse(text) ==
    [computedAt |-> Member(text, "computedAt"), historyN |-> Member(text, "historyN"),
     baselineMedianScore |-> Member(text, "baselineMedianScore"),
     hotspotFiles |-> Member(text, "hotspotFiles")]

FallbackWithZeroMedian(at, n) ==
    [computedAt |-> at, historyN |-> n, baselineMedianScore |-> 0, hotspotFiles |-> <<>>]

\* the record the catch of run() assigns
FallbackBaseline(at, n) ==
    [computedAt |-> at, historyN |-> n, baselineMedianScore |-> Null, hotspotFiles |-> <<>>]

\* formatSigned(n): the sign and the digits
formatSigned(n) == IF n > 0 THEN <<"+", n>> ELSE IF n < 0 THEN <<"-", 0 - n>> ELSE <<"", 0>>

\* baselineScore === null ? "n/a" : formatSigned(score - Math.round(baselineScore)),
\* the baseline score in halves
TrendText(score, baselineScore) ==
    IF baselineScore = Null THEN <<"n/a">>
    ELSE formatSigned(score - (baselineScore + 1) \div 2)

buildComment(score, emoji, trend, reviewMinutes, drivers, actions) ==
    [score |-> score, emoji |-> emoji, trendText |-> trend,
     reviewMinutes |-> reviewMinutes, drivers |-> drivers, actions |-> actions]

\* the inputs of a run
Modes == {"analyze", "refresh-baseline"}
PullNumbers == {-1, 0, 1}
RunHistoryN == {1, 2}
RunClosedLists == {<<>>, <<4>>, <<4, 1>>}
ChangeLists == {<<FilePool[8], FilePool[6]>>, <<FilePool[1]>>}

\* run() up to its first await.  Without a pull number getContextOrThrow
\* throws: refresh-baseline goes on, analyze fails the run.
StartRun(m, n, p, cleanRunner) ==
    /\ rpc = "idle"
    /\ runs < MaxRuns
    /\ runs' = runs + 1
    /\ now' = now + 1
    /\ mode' = m
    /\ historyN' = n
    /\ pullNumber' = p
    /\ localFile' = IF cleanRunner THEN <<>> ELSE localFile
    /\ loaded' = <<>>
    /\ baseline' = <<>>
    /\ fresh' = <<>>
    /\ saveFailure' = "none"
    /\ fetchFailed' = FALSE
    /\ trendText' = <<>>
    /\ files' = <<>>
    /\ hotspotSet' = {}
    /\ pc' = "idle"
    /\ counts' = NoCounts
    /\ scores' = NoScores
    /\ driversTop3' = <<>>
    /\ suggested' = <<>>
    /\ merged' = <<>>
    /\ cursor' = 0
    /\ freq' = <<>>
    /\ histScores' = <<>>
    /\ computed' = <<>>
    /\ IF m = "refresh-baseline"
       THEN rpc' = "compute" /\ bpc' = "list" /\ outcome' = "running"
       ELSE IF p = 0
            THEN rpc' = "idle" /\ bpc' = "idle" /\ outcome' = "failed"
            ELSE IF p < 0
                 THEN rpc' = "idle" /\ bpc' = "idle" /\ outcome' = "skipped"
                 ELSE rpc' = "load" /\ bpc' = "idle" /\ outcome' = "running"
    /\ UNCHANGED <<cvars, repoClosed, cacheStore, lastSaved, comment>>

\* after loadBaselineFromCache: compute the baseline, or go on with the one
\* loaded
AfterLoad(b) ==
    /\ loaded' = b
    /\ baseline' = b
    /\ IF b = <<>> \/ b[1].historyN # historyN
       THEN rpc' = "compute" /\ bpc' = "list"
       ELSE rpc' = "files" /\ bpc' = "idle"

\* await cache.restoreCache resolves: a hit writes the cached file over the
\* local one, a miss leaves the local file; then the file is read and parsed
RestoreCache ==
    /\ rpc = "load"
    /\ LET file == IF cacheStore # <<>> THEN cacheStore ELSE localFile
       IN  /\ localFile' = file
           /\ AfterLoad(IF file = <<>> THEN <<>> ELSE <<JSONparse(file[1])>>)
    /\ UNCHANGED <<cvars, avars, repoClosed, historyN, merged, cursor, freq, histScores, computed,
                   runs, now, mode, pullNumber, cacheStore, fresh, lastSaved, saveFailure,
                   fetchFailed, outcome, trendText, comment>>

\* await cache.restoreCache rejects: null
RestoreCacheFails ==
    /\ rpc = "load"
    /\ AfterLoad(<<>>)
    /\ UNCHANGED <<cvars, avars, repoClosed, historyN, merged, cursor, freq, histScores, computed,
                   runs, now, mode, pullNumber, cacheStore, localFile, fresh, lastSaved,
                   saveFailure, fetchFailed, outcome, trendText, comment>>

\* await computeBaseline resolves; saveBaselineToCache is called
BaselineComputed ==
    /\ rpc = "compute"
    /\ bpc = "returned"
    /\ baseline' = computed
    /\ fresh' = computed
    /\ rpc' = "write"
    /\ bpc' = "idle"
    /\ UNCHANGED <<cvars, avars, repoClosed, historyN, merged, cursor, freq, histScores, computed,
                   runs, now, mode, pullNumber, cacheStore, localFile, loaded, lastSaved,
                   saveFailure, fetchFailed, outcome, trendText, comment>>

\* what run() does with an exception out of its try block in analyze mode,
\* and with one out of the refresh-baseline branch
Caught ==
    IF mode = "refresh-baseline"
    THEN /\ outcome' = "failed"
         /\ rpc' = "idle"
         /\ UNCHANGED baseline
    ELSE /\ baseline' = <<FallbackBaseline(now, historyN)>>
         /\ rpc' = "files"
         /\ UNCHANGED outcome

\* await computeBaseline rejects
ComputeBaselineThrew ==
    /\ rpc = "compute"
    /\ bpc = "threw"
    /\ fetchFailed' = TRUE
    /\ bpc' = "idle"
    /\ Caught
    /\ UNCHANGED <<cvars, avars, repoClosed, historyN, merged, cursor, freq, histScores, computed,
                   runs, now, mode, pullNumber, cacheStore, localFile, loaded, fresh,
                   lastSaved, saveFailure, trendText, comment>>

\* saveBaselineToCache: mkdirSync and writeFileSync replace the local file
WriteCacheFile ==
    /\ rpc = "write"
    /\ localFile' = <<JSONstringify(baseline[1])>>
    /\ lastSaved' = baseline
    /\ rpc' = "upload"
    /\ UNCHANGED <<cvars, avars, bvars, runs, now, mode, pullNumber, cacheStore, loaded, baseline,
                   fresh, saveFailure, fetchFailed, outcome, trendText, comment>>

\* mkdirSync or writeFileSync throws: saveBaselineToCache does not catch it
WriteCacheFileFails ==
    /\ rpc = "write"
    /\ saveFailure' = "write"
    /\ Caught
    /\ UNCHANGED <<cvars, avars, bvars, runs, now, mode, pullNumber, cacheStore, localFile, loaded,
                   fresh, lastSaved, fetchFailed, trendText, comment>>

\* after saveBaselineToCache returns
AfterSave ==
    IF mode = "refresh-baseline"
    THEN outcome' = "refreshed" /\ rpc' = "idle"
    ELSE rpc' = "files" /\ UNCHANGED outcome

\* await cache.saveCache resolves: an entry is created under a key that has
\* none
SaveCache ==
    /\ rpc = "upload"
    /\ cacheStore = <<>>
    /\ cacheStore' = localFile
    /\ AfterSave
    /\ UNCHANGED <<cvars, avars, bvars, runs, now, mode, pullNumber, localFile, loaded, baseline,
                   fresh, lastSaved, saveFailure, fetchFailed, trendText, comment>>

\* await cache.saveCache rejects (the key exists already, or the upload
\* failed): caught and logged
SaveCacheFails ==
    /\ rpc = "upload"
    /\ saveFailure' = "upload"
    /\ AfterSave
    /\ UNCHANGED <<cvars, avars, bvars, runs, now, mode, pullNumber, cacheStore, localFile, loaded,
                   baseline, fresh, lastSaved, fetchFailed, trendText, comment>>

\* await listPullFiles resolves for the change: analyze, the trend and the
\* comment body, up to the call of upsertSingleComment
ListChangeFiles ==
    /\ rpc = "files"
    /\ \E fs \in ChangeLists :
        LET hs == Range(baseline[1].hotspotFiles)
            res == analyze(fs, hs)
        IN  /\ files' = fs
            /\ hotspotSet' = hs
            /\ counts' = res.counts
            /\ scores' = res.scores
            /\ driversTop3' = res.driversTop3
            /\ suggested' = res.suggestedActions
            /\ pc' = "done"
            /\ trendText' = TrendText(res.scores.score, baseline[1].baselineMedianScore)
    /\ rpc' = "publish"
    /\ UNCHANGED <<cvars, bvars, runs, now, mode, pullNumber, cacheStore, localFile, loaded, baseline,
                   fresh, lastSaved, saveFailure, fetchFailed, outcome, comment>>

\* await listPullFiles rejects for the change: logged, the run returns
ListChangeFilesFails ==
    /\ rpc = "files"
    /\ outcome' = "unread"
    /\ rpc' = "idle"
    /\ UNCHANGED <<cvars, avars, bvars, runs, now, mode, pullNumber, cacheStore, localFile, loaded,
                   baseline, fresh, lastSaved, saveFailure, fetchFailed, trendText, comment>>

\* await upsertSingleComment resolves, the comment created or updated
Upsert ==
    /\ rpc = "publish"
    /\ comment' = <<buildComment(scores.score, scores.verdictEmoji, trendText,
                                 scores.reviewMinutes,
                                 [i \in 1..Len(driversTop3) |-> driversTop3[i].label],
                                 suggested)>>
    /\ outcome' = "reported"
    /\ rpc' = "idle"
    /\ UNCHANGED <<cvars, avars, bvars, runs, now, mode, pullNumber, cacheStore, localFile, loaded,
                   baseline, fresh, lastSaved, saveFailure, fetchFailed, trendText>>

\* a request of upsertSingleComment fails: caught and logged inside it
UpsertFails ==
    /\ rpc = "publish"
    /\ outcome' = "unpublished"
    /\ rpc' = "idle"
    /\ UNCHANGED <<cvars, avars, bvars, runs, now, mode, pullNumber, cacheStore, localFile, loaded,
                   baseline, fresh, lastSaved, saveFailure, fetchFailed, trendText, comment>>

(***************************************************************************)
(* SpecRun: runs of the action on one repository, one after the other.     *)
(***************************************************************************)
InitRun ==
    /\ repoClosed \in RunClosedLists
    /\ historyN = 0
    /\ bpc = "idle"
    /\ merged = <<>>
    /\ cursor = 0
    /\ freq = <<>>
    /\ histScores = <<>>
    /\ computed = <<>>
    /\ AnalyzeIdle
    /\ RunIdle
    /\ CommentIdle

NextRun ==
    \/ \E m \in Modes, n \in RunHistoryN, p \in PullNumbers, c \in BOOLEAN : StartRun(m, n, p, c)
    \/ RestoreCache
    \/ RestoreCacheFails
    \/ ComputeBaselineStep
    \/ BaselineComputed
    \/ ComputeBaselineThrew
    \/ WriteCacheFile
    \/ WriteCacheFileFails
    \/ SaveCache
    \/ SaveCacheFails
    \/ ListChangeFiles
    \/ ListChangeFilesFails
    \/ Upsert
    \/ UpsertFails

SpecRun == InitRun /\ [][NextRun]_vars

(***************************************************************************)
(* upsertSingleComment (comment.ts): one comment per change, found by its  *)
(* marker.  Comment bodies and tags are sequences of one-character         *)
(* strings; the comments of the change are kept in the order the platform  *)
(* lists them, oldest first.                                               *)
(***************************************************************************)
MaxCalls == 3
MaxOtherComments == 1

perPage == 100

DefaultTag ==
    <<"<","!","-","-"," ","d","r","i","f","t","-","r","a","d","a","r"," ","-","-",">">>

IsSpace(c) == c \in {" ", "\t", "\n"}

RECURSIVE trimStart(_)
trimStart(s) == IF s # <<>> /\ IsSpace(Head(s)) THEN trimStart(Tail(s)) ELSE s

RECURSIVE trimEnd(_)
trimEnd(s) ==
    IF s # <<>> /\ IsSpace(s[Len(s)]) THEN trimEnd(SubSeq(s, 1, Len(s) - 1)) ELSE s

\* String.prototype.trim
trim(s) == trimEnd(trimStart(s))

\* core.getInput(name): the value of the input, trimmed; "" when not given
getInput(raw) == trim(raw)

\* const tag = core.getInput("comment-tag") || "<!-- drift-radar -->"
TagOf(raw) == IF getInput(raw) # <<>> THEN getInput(raw) ELSE DefaultTag

\* const fullBody = `${marker}\n${body}\n`
FullBody(marker, body) == marker \o <<"\n">> \o body \o <<"\n">>

\* the answer to GET .../comments with per_page and page
CommentsPage(all, pg) == SubSeq(all, (pg - 1) * perPage + 1, Min(Len(all), pg * perPage))

\* a comment body equal to the marker, not one that contains it
FirstMatchWholeBody(items, marker) ==
    IF \E i \in 1..Len(items) : items[i].body = marker
    THEN items[CHOOSE i \in 1..Len(items) :
                   /\ items[i].body = marker
                   /\ \A j \in 1..(i - 1) : items[j].body # marker].id
    ELSE Null

\* for (const c of items) if (text.includes(marker)) { existingId = c.id; break }
FirstMatch(items, marker) ==
    IF \E i \in 1..Len(items) : includes(items[i].body, marker)
    THEN items[CHOOSE i \in 1..Len(items) :
                   /\ includes(items[i].body, marker)
                   /\ \A j \in 1..(i - 1) : ~includes(items[j].body, marker)].id
    ELSE Null

\* if (existingId): neither null nor 0
Truthy(id) == id # Null /\ id # 0

\* the inputs: the comment-tag input, the report bodies, what other people
\* write, and the comments the change has before the first call
TagInputs ==
    { <<>>, <<" ">>, <<"<","t",">">>, <<" ","<","t",">","\n">>, <<"<","t"," ","t",">">> }

Bodies == { <<"S","c","o","r","e",":"," ","2","6">>, <<"S","c","o","r","e",":"," ","1","9">> }

OtherBodies == { <<"<","!","-","-"," ","d","r","i","f","t">>, <<"<","t">> }

EarlierComments(n) == [i \in 1..n |-> [id |-> i, body |-> <<"L","G","T","M">>]]

EarlierCounts == {0, 1, perPage - 1, perPage}

\* the call made by run() at its end: marker, fullBody, page = 1, existingId = null
StartUpsert(body) ==
    /\ upc = "idle"
    /\ calls < MaxCalls
    /\ calls' = calls + 1
    /\ params' = [body |-> body, tag |-> TagOf(tagInput)]
    /\ page' = 1
    /\ existingId' = Null
    /\ upc' = "list"
    /\ outcome' = "running"
    /\ UNCHANGED <<issueComments, nextId, tagInput, published, posted, lastWrite>>
    /\ UNCHANGED <<avars, bvars, rpc, runs, now, mode, pullNumber, cacheStore, localFile,
                   loaded, baseline, fresh, lastSaved, saveFailure, fetchFailed, trendText,
                   comment>>

\* one pass of the while loop: a page is listed and searched
ListComments ==
    /\ upc = "list"
    /\ LET marker == trim(params.tag)
           items == CommentsPage(issueComments, page)
           found == FirstMatch(items, marker)
           id == IF found # Null THEN found ELSE existingId
       IN  /\ existingId' = id
           /\ IF Truthy(id) \/ Len(items) < perPage
              THEN upc' = "write" /\ UNCHANGED page
              ELSE page' = page + 1 /\ UNCHANGED upc
    /\ UNCHANGED <<issueComments, nextId, tagInput, params, calls, published, posted, lastWrite>>
    /\ UNCHANGED <<avars, bvars, rvars>>

\* the GET request rejects: caught and logged
ListCommentsFails ==
    /\ upc = "list"
    /\ upc' = "idle"
    /\ outcome' = "unpublished"
    /\ UNCHANGED <<issueComments, nextId, tagInput, params, page, existingId, calls,
                   published, posted, lastWrite>>
    /\ UNCHANGED <<avars, bvars, rpc, runs, now, mode, pullNumber, cacheStore, localFile,
                   loaded, baseline, fresh, lastSaved, saveFailure, fetchFailed, trendText,
                   comment>>

\* PATCH .../comments/{existingId} with fullBody
UpdateComment ==
    /\ upc = "write"
    /\ Truthy(existingId)
    /\ LET fullBody == FullBody(trim(params.tag), params.body)
       IN  /\ issueComments' =
                  [i \in 1..Len(issueComments) |->
                      IF issueComments[i].id = existingId
                      THEN [issueComments[i] EXCEPT !.body = fullBody]
                      ELSE issueComments[i]]
           /\ published' = fullBody
    /\ lastWrite' = "PATCH"
    /\ upc' = "idle"
    /\ outcome' = "reported"
    /\ UNCHANGED <<nextId, tagInput, params, page, existingId, calls, posted>>
    /\ UNCHANGED <<avars, bvars, rpc, runs, now, mode, pullNumber, cacheStore, localFile,
                   loaded, baseline, fresh, lastSaved, saveFailure, fetchFailed, trendText,
                   comment>>

\* POST .../issues/{issue_number}/comments with fullBody
CreateComment ==
    /\ upc = "write"
    /\ ~Truthy(existingId)
    /\ LET fullBody == FullBody(trim(params.tag), params.body)
       IN  /\ issueComments' = Append(issueComments, [id |-> nextId, body |-> fullBody])
           /\ published' = fullBody
    /\ nextId' = nextId + 1
    /\ lastWrite' = "POST"
    /\ upc' = "idle"
    /\ outcome' = "reported"
    /\ UNCHANGED <<tagInput, params, page, existingId, calls, posted>>
    /\ UNCHANGED <<avars, bvars, rpc, runs, now, mode, pullNumber, cacheStore, localFile,
                   loaded, baseline, fresh, lastSaved, saveFailure, fetchFailed, trendText,
                   comment>>

\* the PATCH or POST request rejects: caught and logged
WriteCommentFails ==
    /\ upc = "write"
    /\ upc' = "idle"
    /\ outcome' = "unpublished"
    /\ UNCHANGED <<issueComments, nextId, tagInput, params, page, existingId, calls,
                   published, posted, lastWrite>>
    /\ UNCHANGED <<avars, bvars, rpc, runs, now, mode, pullNumber, cacheStore, localFile,
                   loaded, baseline, fresh, lastSaved, saveFailure, fetchFailed, trendText,
                   comment>>

\* somebody else comments on the change, at any moment
OtherComment(body) ==
    /\ Cardinality({i \in 1..Len(posted) : posted[i].body \in OtherBodies}) < MaxOtherComments
    /\ issueComments' = Append(issueComments, [id |-> nextId, body |-> body])
    /\ posted' = Append(posted, [id |-> nextId, body |-> body])
    /\ nextId' = nextId + 1
    /\ UNCHANGED <<tagInput, upc, params, page, existingId, calls, published, lastWrite>>
    /\ UNCHANGED <<avars, bvars, rvars>>

InitComment ==
    /\ tagInput \in TagInputs
    /\ \E n \in EarlierCounts :
           /\ issueComments = EarlierComments(n)
           /\ posted = EarlierComments(n)
           /\ nextId = n + 1
    /\ upc = "idle"
    /\ params = [body |-> <<>>, tag |-> <<>>]
    /\ page = 1
    /\ existingId = Null
    /\ calls = 0
    /\ published = <<>>
    /\ lastWrite = "none"
    /\ AnalyzeIdle
    /\ BaselineIdle
    /\ RunIdle

NextComment ==
    \/ \E body \in Bodies : StartUpsert(body)
    \/ ListComments
    \/ ListCommentsFails
    \/ UpdateComment
    \/ CreateComment
    \/ WriteCommentFails
    \/ \E body \in OtherBodies : OtherComment(body)

SpecComment == InitComment /\ [][NextComment]_vars

(***************************************************************************)
(* Claims about run, checked under SpecRun.                                *)
(***************************************************************************)
\* C6: what loadBaselineFromCache returns is the record the most recent
\* save wrote.  loaded is what this run's load returned; while fresh is
\* empty this run has saved nothing, and lastSaved is an earlier run's.
C6_LoadReturnsLatestRecord ==
    (loaded # <<>> /\ fresh = <<>> /\ lastSaved # <<>>) => loaded = lastSaved

\* C7: in an analyze run that computed its baseline and could not save it,
\* the run does not fail and the baseline in use is the computed one, which
\* the change is scored against.
C7_SaveFailureKeepsComputedBaseline ==
    (mode = "analyze" /\ fresh # <<>> /\ saveFailure # "none") =>
        /\ outcome # "failed"
        /\ baseline = fresh
        /\ pc = "done" =>
               /\ hotspotSet = Range(fresh[1].hotspotFiles)
               /\ trendText = TrendText(scores.score, fresh[1].baselineMedianScore)

Ended == rpc = "idle" /\ outcome # "none"

NotAvailable == <<"n/a">>

\* C8 as stated: when fetching the history failed the run does not fail,
\* the baseline in use is the fallback record, and the run ends with the
\* change scored with H = 0 and its report, trend n/a, published.
C8_FetchFailureStillReports ==
    fetchFailed =>
        /\ outcome # "failed"
        /\ baseline = <<EmptyBaseline(now, historyN)>>
        /\ Ended => /\ pc = "done"
                    /\ counts.H = 0
                    /\ trendText = NotAvailable
                    /\ outcome \in {"reported", "unpublished"}

\* C8 amended: in an analyze run whose history could not be fetched the run
\* does not fail and the baseline in use is the fallback record; once the
\* change's own files are listed it is scored with no hotspots and its
\* report, trend n/a, is handed to upsertSingleComment; if they cannot be
\* listed the run ends without a report.  A refresh-baseline run fails.
C8_FetchFailureAmended ==
    fetchFailed =>
        IF mode = "refresh-baseline"
        THEN outcome = "failed" /\ fresh = <<>> /\ rpc = "idle"
        ELSE /\ outcome # "failed"
             /\ baseline = <<EmptyBaseline(now, historyN)>>
             /\ baseline[1].baselineMedianScore = Null
             /\ pc = "done" =>
                    /\ hotspotSet = {}
                    /\ counts.H = 0
                    /\ counts = classifyFiles(files, {})
                    /\ trendText = NotAvailable
             /\ rpc = "publish" => pc = "done"
             /\ Ended =>
                    /\ outcome \in {"reported", "unpublished", "unread"}
                    /\ outcome = "unread" <=> pc # "done"
                    /\ outcome = "reported" =>
                           /\ comment # <<>>
                           /\ comment[1].trendText = NotAvailable
                           /\ comment[1].score = scores.score

\* the fetch of the second historical change failed, the first one counted
\* already, and the report was published
C8_Witness ==
    /\ mode = "analyze"
    /\ fetchFailed
    /\ Len(freq) > 0
    /\ outcome = "reported"
    /\ comment # <<>>

\* the loop of computeBaseline over a whole window, for a window other than
\* the one being processed
RECURSIVE FoldWindow(_, _, _, _)
FoldWindow(w, i, fq, ss) ==
    IF i > Len(w) THEN [freq |-> fq, scores |-> ss]
    ELSE LET fs == PullPool[w[i]].files
         IN  FoldWindow(w, i + 1, FreqAddFiles(fq, fs, 1), Append(ss, HistoricalScore(fs)))

BaselineOf(w, at, n) ==
    IF Len(w) = 0 THEN EmptyBaseline(at, n)
    ELSE LET r == FoldWindow(w, 1, <<>>, <<>>)
         IN  BaselineRecord(at, n, r.freq, r.scores)

(***************************************************************************)
(* Claims about computeBaseline, checked under SpecBaseline.               *)
(***************************************************************************)
Returned == bpc = "returned" /\ Len(merged) > 0

PathsOf(n) == {PullPool[n].files[j].filename : j \in 1..Len(PullPool[n].files)}

\* the paths the window's changes touch, and how many changes touch each
Touched == UNION {PathsOf(merged[i]) : i \in 1..Len(merged)}
TouchCount(p) == Cardinality({i \in 1..Len(merged) : p \in PathsOf(merged[i])})

\* C4: the hotspot set of a non-empty window is ten most frequently touched
\* paths (all of them when there are fewer) together with every path touched
\* by three changes or more; with fewer than ten paths every path is one.
C4_HotspotSet ==
    Returned =>
        LET hs == Range(computed[1].hotspotFiles)
            tc == [p \in Touched |-> TouchCount(p)]
            thr == {p \in Touched : tc[p] >= 3}
        IN  /\ Len(computed[1].hotspotFiles) = Cardinality(hs)
            /\ thr \subseteq hs
            /\ hs \subseteq Touched
            /\ \E top \in SUBSET hs :
                   /\ Cardinality(top) = Min(10, Cardinality(Touched))
                   /\ hs = top \cup thr
                   /\ \A p \in top : \A q \in Touched \ top : tc[p] >= tc[q]
            /\ Cardinality(Touched) < 10 => hs = Touched
            /\ \A i \in 1..Len(freq) : freq[i].count = tc[freq[i].path]

\* more than ten paths touched: an eleventh is a hotspot by its frequency
\* alone, a twelfth is none
C4_Witness ==
    /\ Returned
    /\ Cardinality(Touched) > 10
    /\ Cardinality(Range(computed[1].hotspotFiles)) > 10
    /\ Range(computed[1].hotspotFiles) # Touched

PermutedBy(w, f) == [i \in 1..Len(w) |-> w[f[i]]]

\* C5 as stated: every permutation of the window gives the same hotspot set
\* and the same median.
C5_OrderIndependent ==
    Returned =>
        \A f \in Permutations(1..Len(merged)) :
            LET b == BaselineOf(PermutedBy(merged, f), now, historyN)
            IN  /\ Range(b.hotspotFiles) = Range(computed[1].hotspotFiles)
                /\ b.baselineMedianScore = computed[1].baselineMedianScore

\* no two paths of equal frequency below 3 lie on either side of the tenth place
NoLowTieAtCut(entries) ==
    \/ Len(entries) <= 10
    \/ entries[10].count > entries[11].count
    \/ entries[11].count >= 3

\* C5 amended: every permutation of the window gives the same frequency
\* table and the same median; it gives the same hotspot set unless paths of
\* equal frequency below 3 tie across the tenth place, where the paths seen
\* first are kept.
C5_OrderIndependentAmended ==
    Returned =>
        \A f \in Permutations(1..Len(merged)) :
            LET w == PermutedBy(merged, f)
                r == FoldWindow(w, 1, <<>>, <<>>)
                b == BaselineOf(w, now, historyN)
            IN  /\ Range(r.freq) = Range(freq)
                /\ b.baselineMedianScore = computed[1].baselineMedianScore
                /\ NoLowTieAtCut(SortedEntries(freq)) =>
                       Range(b.hotspotFiles) = Range(computed[1].hotspotFiles)

\* a window of several changes with different scores and more than ten paths
C5_Witness ==
    /\ Returned
    /\ Len(merged) >= 2
    /\ \E i, j \in 1..Len(histScores) : histScores[i] # histScores[j]
    /\ Len(freq) > 10
    /\ NoLowTieAtCut(SortedEntries(freq))

(***************************************************************************)
(* Claims about analyze, checked under Spec.                               *)
(***************************************************************************)
Scored == pc \in {"drivers", "actions", "done"}
Picked == pc \in {"actions", "done"}

\* C1: whatever the file list and the hotspot set, the score computed is an
\* integer in 0..100 and the review minutes an integer in 5..90, and the
\* finished analysis carries the counts, scores, drivers and actions.
C1_RangeValid ==
    /\ Scored => /\ scores.score \in 0..100
                 /\ scores.reviewMinutes \in 5..90
    /\ pc = "done" => /\ counts = classifyFiles(files, hotspotSet)
                      /\ Len(driversTop3) >= 1
                      /\ Len(suggested) >= 1

\* a change whose raw review estimate lies above the ceiling
C1_Witness ==
    /\ pc = "done"
    /\ computeReviewMinutesUnclamped(counts.F, counts.L, counts.C, counts.T,
                                     counts.D, counts.I, counts.H) > 90
    /\ scores.reviewMinutes = 90

AllDocs == \A i \in 1..Len(files) : isDocsPath(files[i].filename)

\* C2: a non-empty list of documentation paths only is docsOnly and scores
\* at most 25; the empty list is not docsOnly and its score is not capped.
C2_DocsOnlyCap ==
    Scored =>
        /\ (Len(files) > 0 /\ AllDocs) => (counts.docsOnly /\ scores.score <= 25)
        /\ counts.docsOnly => (Len(files) > 0 /\ AllDocs)
        /\ files = <<>> => (~counts.docsOnly /\ scores.score = scores.uncapped)

\* a documentation-only change with core files, no tests and enough lines to
\* score above 25 before the cap
C2_Witness ==
    /\ pc = "done"
    /\ counts.docsOnly
    /\ counts.C > 0
    /\ scores.uncapped > 25
    /\ scores.score = 25

KeysDistinct(ds) == \A i, j \in 1..Len(ds) : i # j => ds[i].key # ds[j].key

\* the place of a cause in the order pickDrivers generates the candidates
GenerationRank(key) ==
    LET cand == DriverCandidates(counts, scores)
    IN  CHOOSE i \in 1..Len(cand) : cand[i].key = key

\* C3 as stated: at most three drivers, contributions strictly descending,
\* no key twice.
C3_StrictlyDescending ==
    Picked =>
        /\ Len(driversTop3) <= 3
        /\ \A i \in 1..(Len(driversTop3) - 1) :
               driversTop3[i].contribution > driversTop3[i + 1].contribution
        /\ KeysDistinct(driversTop3)

\* C3 amended: at most three drivers, no key twice, contributions never
\* ascending, equal contributions in generation order, and no candidate left
\* out contributes more than one that was kept.
C3_TopThreeOrdered ==
    Picked =>
        /\ Len(driversTop3) <= 3
        /\ Len(driversTop3) = Min(3, Len(DriverCandidates(counts, scores)))
        /\ KeysDistinct(driversTop3)
        /\ Range(driversTop3) \subseteq Range(DriverCandidates(counts, scores))
        /\ \A i \in 1..(Len(driversTop3) - 1) :
               \/ driversTop3[i].contribution > driversTop3[i + 1].contribution
               \/ /\ driversTop3[i].contribution = driversTop3[i + 1].contribution
                  /\ GenerationRank(driversTop3[i].key) < GenerationRank(driversTop3[i + 1].key)
        /\ \A d \in Range(DriverCandidates(counts, scores)) \ Range(driversTop3) :
               \A k \in 1..Len(driversTop3) : d.contribution <= driversTop3[k].contribution

\* two of the returned drivers contribute the same
C3_Witness ==
    /\ Picked
    /\ \E i \in 1..(Len(driversTop3) - 1) :
           driversTop3[i].contribution = driversTop3[i + 1].contribution

\* the decision table of section 4.5 for counts c, a score s and a result r
DecisionTable(c, s, r) ==
    LET tests == c.C > 0 /\ c.T = 0
        split == s >= 70
        checklist == s >= 40 /\ s < 70 /\ (c.D > 0 \/ c.I > 0)
        expected == (IF tests THEN <<"Add targeted tests">> ELSE <<>>)
                    \o (IF split THEN <<"Split this PR">> ELSE <<>>)
                    \o (IF checklist THEN <<"Add a focused review checklist">> ELSE <<>>)
    IN  IF c.docsOnly
        THEN r = <<"No action needed (docs-only change)">>
        ELSE /\ Len(r) \in {1, 2}
             /\ "Add targeted tests" \in Range(r) <=> tests
             /\ "Split this PR" \in Range(r) <=> split
             /\ "Add a focused review checklist" \in Range(r) <=> checklist
             /\ "Proceed with normal review" \in Range(r) <=> ~(tests \/ split \/ checklist)
             /\ "No action needed (docs-only change)" \notin Range(r)
             /\ expected # <<>> => r = expected

\* C9: the suggested actions follow the decision table, for the score of the
\* analysis and for every other score handed to suggestedActions with the
\* same counts.
C9_DecisionTable ==
    pc = "done" =>
        /\ DecisionTable(counts, scores.score, suggested)
        /\ \A s \in 0..100 : DecisionTable(counts, s, suggestedActions(counts, s))

\* two actions qualified and both were kept
C9_Witness ==
    /\ pc = "done"
    /\ ~counts.docsOnly
    /\ suggested = <<"Add targeted tests", "Split this PR">>

LowCoverageListed == \E i \in 1..Len(driversTop3) : driversTop3[i].key = "Low test coverage"

\* C10 as stated: S_quality is 60 when core files changed without tests, and
\* whenever T >= C it is 0 and no 'Low test coverage' driver is listed.
C10_QualityZeroWhenTestsCoverCore ==
    Picked =>
        /\ (counts.C > 0 /\ counts.T = 0) => scores.S_quality = 60 * E5
        /\ counts.T >= counts.C => (scores.S_quality = 0 /\ ~LowCoverageListed)

\* C10 amended: S_quality is 60 whenever no test file changed (core files or
\* not), and it is 0, with no 'Low test coverage' driver, once T >= max(1, C);
\* in between it is 60 * (C - T) / C.
C10_QualityAmended ==
    Picked =>
        /\ counts.T = 0 => scores.S_quality = 60 * E5
        /\ counts.T >= Max(1, counts.C) => (scores.S_quality = 0 /\ ~LowCoverageListed)
        /\ (counts.T > 0 /\ counts.T < counts.C) =>
               /\ scores.S_quality > 0
               /\ scores.S_quality < 60 * E5
               /\ scores.S_quality = (60 * E5 * (counts.C - counts.T)) \div counts.C
        /\ LowCoverageListed => counts.T < Max(1, counts.C)

\* core files changed and as many test files did
C10_Witness ==
    /\ pc = "done"
    /\ counts.C > 0
    /\ counts.T >= counts.C
    /\ scores.S_quality = 0

CoreNoTests == "Core changed without tests"

\* the place of the 'Core changed without tests' driver in ds, 0 when absent
CorePlace(ds) ==
    IF \E i \in 1..Len(ds) : ds[i].key = CoreNoTests
    THEN CHOOSE i \in 1..Len(ds) : ds[i].key = CoreNoTests
    ELSE 0

\* C11: whenever core files changed and no test file did, the 'Core changed
\* without tests' driver, contribution 27, is among the returned drivers;
\* only 'Large change size' (at most 35) and 'Dependency churn' (at most 32)
\* ever contribute as much or more, and the drivers placed before it
\* contribute strictly more.
C11_CoreDriverInTopThree ==
    (Picked /\ counts.C > 0 /\ counts.T = 0) =>
        LET place == CorePlace(driversTop3)
            cand == DriverCandidates(counts, scores)
        IN  /\ place \in 1..3
            /\ driversTop3[place].contribution = 27 * E7
            /\ \A i \in 1..Len(cand) :
                   (cand[i].key # CoreNoTests /\ cand[i].contribution >= 27 * E7)
                       => cand[i].key \in {"Large change size", "Dependency churn"}
            /\ \A i \in 1..Len(cand) :
                   /\ cand[i].key = "Large change size" => cand[i].contribution <= 35 * E7
                   /\ cand[i].key = "Dependency churn" => cand[i].contribution <= 32 * E7
            /\ \A i \in 1..(place - 1) :
                   /\ driversTop3[i].key \in {"Large change size", "Dependency churn"}
                   /\ driversTop3[i].contribution > 27 * E7

\* both causes that can out-rank it did: the driver is the third of three,
\* and a fourth candidate was cut
C11_Witness ==
    /\ Picked
    /\ counts.C > 0
    /\ counts.T = 0
    /\ CorePlace(driversTop3) = 3
    /\ Len(DriverCandidates(counts, scores)) > 3

(***************************************************************************)
(* Claims about upsertSingleComment, checked under SpecComment.            *)
(***************************************************************************)
Marker == trim(TagOf(tagInput))

Tagged == SelectSeq(issueComments, LAMBDA c : includes(c.body, Marker))

Untagged == SelectSeq(issueComments, LAMBDA c : ~includes(c.body, Marker))

\* C12: over calls of upsertSingleComment made one after the other with the
\* tag of the run, on a change that had no tagged comment: at most one
\* comment contains the tag; it exists exactly when a call succeeded and
\* then holds the body of the latest call that succeeded; the comments
\* without the tag are the ones other people posted, unchanged; and whether
\* the requests succeed or fail, the run ends without having failed.
C12_SingleTaggedComment ==
    /\ Marker # <<>>
    /\ Len(Tagged) <= 1
    /\ published = <<>> => Tagged = <<>>
    /\ published # <<>> => (Len(Tagged) = 1 /\ Tagged[1].body = published)
    /\ (upc = "idle" /\ outcome = "reported") => published = FullBody(Marker, params.body)
    /\ Untagged = posted
    /\ outcome # "failed"
    /\ (upc = "idle" /\ calls > 0) => outcome \in {"reported", "unpublished"}

\* a later call found the comment of an earlier one on the second page and
\* replaced its body, next to a comment somebody else posted after it
C12_Witness ==
    /\ upc = "idle"
    /\ calls >= 2
    /\ lastWrite = "PATCH"
    /\ outcome = "reported"
    /\ page = 2
    /\ Len(issueComments) > perPage + 1
    /\ issueComments[perPage + 1].body = published
    /\ published = FullBody(Marker, params.body)
    /\ \E i \in 1..Len(issueComments) : issueComments[i].body \in OtherBodies

====
